---- MODULE Spec2Model ----
(***************************************************************************)
(* Model of the geocoding facade in src/src/main.py: a FastAPI service     *)
(* whose /search, /search/location and /reverse routes (GET and POST)      *)
(* forward one blocking GET to the upstream Photon service, reshape the    *)
(* decoded features and translate failures into HTTP status/detail pairs.  *)
(*                                                                         *)
(* Conventions.  A Python Optional argument that is None is a key that is  *)
(* absent from the argument mapping.  A text (str) is a sequence of string *)
(* pieces, so that an f-string is a concatenation and "the detail embeds   *)
(* the exception text" is a statement about a suffix.  A Python call that  *)
(* may raise returns either Ok(v) or Raise(e).  Upstream JSON values that  *)
(* are present have the types PlaceResponse declares (name and country are *)
(* strings, coordinates a list of numbers); what varies is which keys a    *)
(* body or a feature holds.  raise_for_status raises for every status      *)
(* outside 200..299, as current httpx does.                                *)
(***************************************************************************)
EXTENDS Integers, Sequences, FiniteSets, TLC

VARIABLES pc, req, sent, upstream, resp

vars == <<pc, req, sent, upstream, resp>>

(* ------------------------------ bounds -------------------------------- *)

\* Longest upstream feature list enumerated.
MaxFeatures == 2

\* Number of inbound requests handled concurrently in SpecConcurrent.
NumRequests == 2

(* ------------------------- inbound requests --------------------------- *)

NoParams == <<>>

QueryOpts == {NoParams, "query" :> "Berlin"}

LimitOpts == {NoParams, "limit" :> 0, "limit" :> 2}

LangOpts == {NoParams, "lang" :> "", "lang" :> "en"}

LatOpts == {NoParams, "lat" :> 0, "lat" :> 52}

LonOpts == {NoParams, "lon" :> 13}

Methods == {"GET", "POST"}

SearchRequests ==
    { [route |-> "/search", method |-> m, params |-> q @@ l @@ g] :
        m \in Methods, q \in QueryOpts, l \in LimitOpts, g \in LangOpts }

LocationRequests ==
    { [route |-> "/search/location", method |-> m, params |-> q @@ a @@ o] :
        m \in Methods, q \in QueryOpts, a \in LatOpts, o \in LonOpts }

ReverseRequests ==
    { [route |-> "/reverse", method |-> m, params |-> a @@ o] :
        m \in Methods, a \in LatOpts, o \in LonOpts }

InfoRequests ==
    { [route |-> p, method |-> "GET", params |-> NoParams] : p \in {"/", "/health"} }

Requests == SearchRequests \cup LocationRequests \cup ReverseRequests \cup InfoRequests

\* The requests enumerated when several inbound requests interleave.
FewRequests ==
    { [route |-> "/search", method |-> "GET", params |-> [query |-> "Berlin", limit |-> 2]],
      [route |-> "/search/location", method |-> "POST",
       params |-> [query |-> "Berlin", lat |-> 52, lon |-> 13]],
      [route |-> "/search/location", method |-> "GET", params |-> [query |-> "Berlin", lat |-> 52]],
      [route |-> "/search", method |-> "POST", params |-> [query |-> "Berlin"]],
      [route |-> "/search/location", method |-> "GET",
       params |-> [query |-> "Berlin", lat |-> 0, lon |-> 13]],
      [route |-> "/reverse", method |-> "GET", params |-> [lat |-> 52, lon |-> 13]],
      [route |-> "/reverse", method |-> "POST", params |-> [lat |-> 0, lon |-> 13]],
      [route |-> "/", method |-> "GET", params |-> NoParams],
      [route |-> "/health", method |-> "GET", params |-> NoParams] }

(* ------------------------- upstream behaviour ------------------------- *)

FBerlin ==
    [properties |-> [name |-> "Berlin", country |-> "Germany", osm_id |-> 62422],
     geometry |-> [type |-> "Point", coordinates |-> <<13, 52>>]]

FNoName ==
    [properties |-> [country |-> "France", osm_id |-> 7444],
     geometry |-> [type |-> "Point", coordinates |-> <<2, 48>>]]

FAnonymous ==
    [properties |-> [osm_id |-> 1],
     geometry |-> [type |-> "Point", coordinates |-> <<0, 0>>]]

FNoProperties == [geometry |-> [type |-> "Point", coordinates |-> <<13, 52>>]]

FNoGeometry == [properties |-> [name |-> "Berlin", country |-> "Germany"]]

FNoCoordinates == [properties |-> [name |-> "Paris"], geometry |-> [type |-> "Point"]]

Features == {FBerlin, FNoName, FAnonymous, FNoProperties, FNoGeometry, FNoCoordinates}

FeatureLists == UNION { [1..n -> Features] : n \in 0..MaxFeatures }

NotJson == [json |-> FALSE]

JsonBody(obj) == [json |-> TRUE, obj |-> obj]

Bodies ==
    {NotJson, JsonBody([type |-> "FeatureCollection"])}
        \cup { JsonBody([type |-> "FeatureCollection", features |-> F]) : F \in FeatureLists }

SuccessStatuses == {200, 201}

ErrorStatuses == {301, 400, 404, 429, 500, 503}

TransportErrors ==
    { [kind |-> "exception", type |-> "ConnectError", text |-> <<"All connection attempts failed">>],
      [kind |-> "exception", type |-> "ReadTimeout", text |-> <<"The read operation timed out">>] }

Outcomes ==
    TransportErrors
        \cup { [kind |-> "response", status_code |-> s, body |-> b] :
                 s \in SuccessStatuses, b \in Bodies }
        \cup { [kind |-> "response", status_code |-> s, body |-> NotJson] : s \in ErrorStatuses }

FewOutcomes ==
    { [kind |-> "exception", type |-> "ConnectError", text |-> <<"All connection attempts failed">>],
      [kind |-> "response", status_code |-> 503, body |-> NotJson],
      [kind |-> "response", status_code |-> 200,
       body |-> JsonBody([type |-> "FeatureCollection", features |-> <<>>])],
      [kind |-> "response", status_code |-> 200,
       body |-> JsonBody([type |-> "FeatureCollection", features |-> <<FBerlin>>])] }

NoRequest == [route |-> "", method |-> "", params |-> NoParams]

NoOutcome == [kind |-> "none"]

NoResponse == [status |-> 0, kind |-> "none"]

(* --------------------------- Python values ---------------------------- *)

Ok(v) == [ok |-> TRUE, val |-> v]

Raise(e) == [ok |-> FALSE, exc |-> e]

\* Python's None, and a value that is not None.
None == [none |-> TRUE]

Some(v) == [value |-> v]

\* dict.get(key)
Get(d, key) == IF key \in DOMAIN d THEN Some(d[key]) ELSE None

KeyError(key) == [type |-> "KeyError", text |-> <<"'", key, "'">>]

JSONDecodeError == [type |-> "JSONDecodeError", text |-> <<"Expecting value: line 1 column 1 (char 0)">>]

HTTPException(status_code, detail) ==
    [type |-> "HTTPException", status_code |-> status_code, detail |-> detail,
     text |-> <<ToString(status_code), ": ">> \o detail]


(* ------------------------------ httpx --------------------------------- *)

\* Response.is_success
IsSuccess(status_code) == 200 <= status_code /\ status_code <= 299

StatusClassName(status_code) ==
    CASE status_code \div 100 = 1 -> "Informational response"
      [] status_code \div 100 = 3 -> "Redirect response"
      [] status_code \div 100 = 4 -> "Client error"
      [] OTHER -> "Server error"

HTTPStatusError(status_code) ==
    [type |-> "HTTPStatusError", status_code |-> status_code,
     text |-> <<StatusClassName(status_code), " '", ToString(status_code), "'">>]

\* client.get(...): the transport either raises or hands back the response.
ClientGet(outcome) ==
    IF outcome.kind = "exception"
    THEN Raise([type |-> outcome.type, text |-> outcome.text])
    ELSE Ok(outcome)

\* response.raise_for_status()
RaiseForStatus(response) ==
    IF IsSuccess(response.status_code)
    THEN Ok(response)
    ELSE Raise(HTTPStatusError(response.status_code))

\* response.json()
Json(response) ==
    IF response.body.json THEN Ok(response.body.obj) ELSE Raise(JSONDecodeError)

(* ------------------------ geocoding functions ------------------------- *)

\* search_place, the request it builds: limit and lang only when truthy.
SearchPlaceParams(args) ==
    ("q" :> args.query)
        @@ (IF "limit" \in DOMAIN args /\ args.limit /= 0 THEN "limit" :> args.limit ELSE NoParams)
        @@ (IF "lang" \in DOMAIN args /\ args.lang /= "" THEN "lang" :> args.lang ELSE NoParams)

SearchWithLocationParams(args) ==
    [q |-> args.query, lat |-> args.lat, lon |-> args.lon]

ReverseGeocodeParams(args) ==
    [lat |-> args.lat, lon |-> args.lon]

\* Mutation: the status clause is lost and every exception takes the generic clause.
ExceptClausesGenericOnly(result) ==
    IF result.ok
    THEN result
    ELSE Raise(HTTPException(500, <<"Unexpected error: ">> \o result.exc.text))

\* Mutation: the generic clause answers 502 instead of 500.
ExceptClausesBadGateway(result) ==
    IF result.ok
    THEN result
    ELSE IF result.exc.type = "HTTPStatusError"
    THEN Raise(HTTPException(result.exc.status_code,
                             <<"Geocoding service error: ">> \o result.exc.text))
    ELSE Raise(HTTPException(502, <<"Unexpected error: ">> \o result.exc.text))

\* The two except clauses every geocoding function ends with.
ExceptClauses(result) ==
    IF result.ok
    THEN result
    ELSE IF result.exc.type = "HTTPStatusError"
    THEN Raise(HTTPException(result.exc.status_code,
                             <<"Geocoding service error: ">> \o result.exc.text))
    ELSE Raise(HTTPException(500, <<"Unexpected error: ">> \o result.exc.text))

\* The try body of search_place and search_with_location after the GET is issued.
FeaturesOf(outcome) ==
    LET got == ClientGet(outcome) IN
    IF ~got.ok THEN got ELSE
    LET checked == RaiseForStatus(got.val) IN
    IF ~checked.ok THEN checked ELSE
    LET decoded == Json(checked.val) IN
    IF ~decoded.ok THEN decoded ELSE
    IF "features" \notin DOMAIN decoded.val
    THEN Raise(KeyError("features"))
    ELSE Ok(decoded.val.features)

search_place(outcome) == ExceptClauses(FeaturesOf(outcome))

search_with_location(outcome) == ExceptClauses(FeaturesOf(outcome))

\* Mutation: the first feature is returned whole, its properties not unwrapped.
FirstFeature(outcome) ==
    LET features == FeaturesOf(outcome) IN
    IF ~features.ok THEN features ELSE
    IF features.val = <<>>
    THEN Raise(HTTPException(404, <<"No location found for the given coordinates">>))
    ELSE Ok(features.val[1])

\* The try body of reverse_geocode after the GET is issued.
FirstProperties(outcome) ==
    LET features == FeaturesOf(outcome) IN
    IF ~features.ok THEN features ELSE
    IF features.val = <<>>
    THEN Raise(HTTPException(404, <<"No location found for the given coordinates">>))
    ELSE IF "properties" \notin DOMAIN features.val[1]
    THEN Raise(KeyError("properties"))
    ELSE Ok(features.val[1].properties)

reverse_geocode(outcome) == ExceptClauses(FirstProperties(outcome))

(* -------------------------- response shaping -------------------------- *)

PlaceResponse(name, country, coordinates, properties) ==
    [name |-> name, country |-> country, coordinates |-> coordinates,
     properties |-> properties]

\* Mutation: the coordinate pair is emitted as [lat, lon].
ProjectSwapped(feature) ==
    IF "properties" \notin DOMAIN feature THEN Raise(KeyError("properties"))
    ELSE IF "geometry" \notin DOMAIN feature THEN Raise(KeyError("geometry"))
    ELSE IF "coordinates" \notin DOMAIN feature.geometry THEN Raise(KeyError("coordinates"))
    ELSE Ok(PlaceResponse(Get(feature.properties, "name"),
                          Get(feature.properties, "country"),
                          <<feature.geometry.coordinates[2], feature.geometry.coordinates[1]>>,
                          feature.properties))

\* Mutation: props['name'] and props['country'] are subscripted instead of read with get.
ProjectSubscript(feature) ==
    IF "properties" \notin DOMAIN feature THEN Raise(KeyError("properties"))
    ELSE IF "geometry" \notin DOMAIN feature THEN Raise(KeyError("geometry"))
    ELSE IF "coordinates" \notin DOMAIN feature.geometry THEN Raise(KeyError("coordinates"))
    ELSE IF "name" \notin DOMAIN feature.properties THEN Raise(KeyError("name"))
    ELSE IF "country" \notin DOMAIN feature.properties THEN Raise(KeyError("country"))
    ELSE Ok(PlaceResponse(Some(feature.properties.name),
                          Some(feature.properties.country),
                          feature.geometry.coordinates,
                          feature.properties))

\* One iteration of the loop of the four search handlers.
Project(feature) ==
    IF "properties" \notin DOMAIN feature THEN Raise(KeyError("properties"))
    ELSE IF "geometry" \notin DOMAIN feature THEN Raise(KeyError("geometry"))
    ELSE IF "coordinates" \notin DOMAIN feature.geometry THEN Raise(KeyError("coordinates"))
    ELSE Ok(PlaceResponse(Get(feature.properties, "name"),
                          Get(feature.properties, "country"),
                          feature.geometry.coordinates,
                          feature.properties))

RECURSIVE ProjectFrom(_, _, _)
ProjectFrom(features, i, results) ==
    IF i > Len(features)
    THEN Ok(results)
    ELSE LET one == Project(features[i]) IN
         IF ~one.ok THEN one ELSE ProjectFrom(features, i + 1, Append(results, one.val))

\* The body of a search handler once its geocoding function has returned or raised.
SearchHandler(called) ==
    IF ~called.ok THEN called ELSE ProjectFrom(called.val, 1, <<>>)

(* ----------------------------- framework ------------------------------ *)

\* The parameters a route declares without a default (Query(...), model fields).
Required(route) ==
    CASE route = "/search" -> {"query"}
      [] route = "/search/location" -> {"query", "lat", "lon"}
      [] route = "/reverse" -> {"lat", "lon"}
      [] OTHER -> {}

Missing(q) == Required(q.route) \ DOMAIN q.params

\* What the caller receives for the value a handler returned or the exception it raised.
Respond(result) ==
    IF result.ok
    THEN [status |-> 200, kind |-> "json", content |-> result.val]
    ELSE IF result.exc.type = "HTTPException"
    THEN [status |-> result.exc.status_code, kind |-> "json",
          content |-> [detail |-> result.exc.detail]]
    ELSE [status |-> 500, kind |-> "plain", content |-> <<"Internal Server Error">>]

UnprocessableEntity(missing) ==
    [status |-> 422, kind |-> "json", content |-> [detail |-> missing]]

(* ------------------------------- state -------------------------------- *)

Init ==
    /\ pc = [r \in {1} |-> "idle"]
    /\ req = [r \in {1} |-> NoRequest]
    /\ sent = [r \in {1} |-> <<>>]
    /\ upstream = [r \in {1} |-> NoOutcome]
    /\ resp = [r \in {1} |-> NoResponse]

InitConcurrent ==
    /\ pc = [r \in 1..NumRequests |-> "idle"]
    /\ req = [r \in 1..NumRequests |-> NoRequest]
    /\ sent = [r \in 1..NumRequests |-> <<>>]
    /\ upstream = [r \in 1..NumRequests |-> NoOutcome]
    /\ resp = [r \in 1..NumRequests |-> NoResponse]

\* A handler that answers without calling upstream.
Answer(r, q, response) ==
    /\ pc[r] = "idle"
    /\ pc' = [pc EXCEPT ![r] = "done"]
    /\ req' = [req EXCEPT ![r] = q]
    /\ resp' = [resp EXCEPT ![r] = response]
    /\ UNCHANGED <<sent, upstream>>

\* A geocoding function opens a client and blocks in client.get(url, params).
IssueGet(r, q, fn, url, params) ==
    /\ pc[r] = "idle"
    /\ pc' = [pc EXCEPT ![r] = fn]
    /\ req' = [req EXCEPT ![r] = q]
    /\ sent' = [sent EXCEPT ![r] = Append(@, [url |-> url, params |-> params])]
    /\ UNCHANGED <<upstream, resp>>

\* Mutation: a failed call is issued once more before the request is answered.
CompleteWithRetry(r, fn, o, result) ==
    /\ pc[r] = fn
    /\ IF result.ok \/ Len(sent[r]) > 1
       THEN /\ pc' = [pc EXCEPT ![r] = "done"]
            /\ resp' = [resp EXCEPT ![r] = Respond(result)]
            /\ upstream' = [upstream EXCEPT ![r] = o]
            /\ UNCHANGED <<req, sent>>
       ELSE /\ sent' = [sent EXCEPT ![r] = Append(@, sent[r][1])]
            /\ UNCHANGED <<pc, req, upstream, resp>>

\* The blocked GET completes with outcome o and the handler runs to its end.
Complete(r, fn, o, result) ==
    /\ pc[r] = fn
    /\ pc' = [pc EXCEPT ![r] = "done"]
    /\ upstream' = [upstream EXCEPT ![r] = o]
    /\ resp' = [resp EXCEPT ![r] = Respond(result)]
    /\ UNCHANGED <<req, sent>>

(* ------------------------------ actions ------------------------------- *)

root(r, q) ==
    /\ q.route = "/" /\ q.method = "GET"
    /\ Answer(r, q, Respond(Ok([message |-> "Geocoding API", version |-> "1.0.0"])))

health_check(r, q) ==
    /\ q.route = "/health" /\ q.method = "GET"
    /\ Answer(r, q, Respond(Ok([status |-> "healthy", service |-> "geocoding-api"])))

\* Mutation: the parameters are forwarded upstream before they are validated.
ValidationAfterForward(r, q) ==
    /\ Missing(q) /= {}
    /\ pc[r] = "idle"
    /\ pc' = [pc EXCEPT ![r] = "done"]
    /\ req' = [req EXCEPT ![r] = q]
    /\ sent' = [sent EXCEPT ![r] = Append(@, [url |-> "/api/", params |-> q.params])]
    /\ resp' = [resp EXCEPT ![r] = UnprocessableEntity(Missing(q))]
    /\ UNCHANGED upstream

\* A request lacking a required parameter never reaches its handler.
RequestValidationError(r, q) ==
    /\ Missing(q) /= {}
    /\ Answer(r, q, UnprocessableEntity(Missing(q)))

search_places(r, q) ==
    /\ q.route = "/search" /\ q.method = "POST"
    /\ Missing(q) = {}
    /\ IssueGet(r, q, "search_place", "/api/", SearchPlaceParams(q.params))

search_places_get(r, q) ==
    /\ q.route = "/search" /\ q.method = "GET"
    /\ Missing(q) = {}
    /\ IssueGet(r, q, "search_place", "/api/", SearchPlaceParams(q.params))

search_with_location_priority(r, q) ==
    /\ q.route = "/search/location" /\ q.method = "POST"
    /\ Missing(q) = {}
    /\ IssueGet(r, q, "search_with_location", "/api/", SearchWithLocationParams(q.params))

search_with_location_priority_get(r, q) ==
    /\ q.route = "/search/location" /\ q.method = "GET"
    /\ Missing(q) = {}
    /\ IssueGet(r, q, "search_with_location", "/api/", SearchWithLocationParams(q.params))

reverse_geocode_endpoint(r, q) ==
    /\ q.route = "/reverse" /\ q.method = "POST"
    /\ Missing(q) = {}
    /\ IssueGet(r, q, "reverse_geocode", "/reverse", ReverseGeocodeParams(q.params))

reverse_geocode_endpoint_get(r, q) ==
    /\ q.route = "/reverse" /\ q.method = "GET"
    /\ Missing(q) = {}
    /\ IssueGet(r, q, "reverse_geocode", "/reverse", ReverseGeocodeParams(q.params))

SearchPlaceReturns(r, o) ==
    Complete(r, "search_place", o, SearchHandler(search_place(o)))

SearchWithLocationReturns(r, o) ==
    Complete(r, "search_with_location", o, SearchHandler(search_with_location(o)))

ReverseGeocodeReturns(r, o) ==
    Complete(r, "reverse_geocode", o, reverse_geocode(o))

Next ==
    \/ \E r \in DOMAIN pc, q \in Requests : root(r, q)
    \/ \E r \in DOMAIN pc, q \in Requests : health_check(r, q)
    \/ \E r \in DOMAIN pc, q \in Requests : RequestValidationError(r, q)
    \/ \E r \in DOMAIN pc, q \in Requests : search_places(r, q)
    \/ \E r \in DOMAIN pc, q \in Requests : search_places_get(r, q)
    \/ \E r \in DOMAIN pc, q \in Requests : search_with_location_priority(r, q)
    \/ \E r \in DOMAIN pc, q \in Requests : search_with_location_priority_get(r, q)
    \/ \E r \in DOMAIN pc, q \in Requests : reverse_geocode_endpoint(r, q)
    \/ \E r \in DOMAIN pc, q \in Requests : reverse_geocode_endpoint_get(r, q)
    \/ \E r \in DOMAIN pc, o \in Outcomes : SearchPlaceReturns(r, o)
    \/ \E r \in DOMAIN pc, o \in Outcomes : SearchWithLocationReturns(r, o)
    \/ \E r \in DOMAIN pc, o \in Outcomes : ReverseGeocodeReturns(r, o)

NextConcurrent ==
    \/ \E r \in DOMAIN pc, q \in FewRequests : root(r, q)
    \/ \E r \in DOMAIN pc, q \in FewRequests : health_check(r, q)
    \/ \E r \in DOMAIN pc, q \in FewRequests : RequestValidationError(r, q)
    \/ \E r \in DOMAIN pc, q \in FewRequests : search_places(r, q)
    \/ \E r \in DOMAIN pc, q \in FewRequests : search_places_get(r, q)
    \/ \E r \in DOMAIN pc, q \in FewRequests : search_with_location_priority(r, q)
    \/ \E r \in DOMAIN pc, q \in FewRequests : search_with_location_priority_get(r, q)
    \/ \E r \in DOMAIN pc, q \in FewRequests : reverse_geocode_endpoint(r, q)
    \/ \E r \in DOMAIN pc, q \in FewRequests : reverse_geocode_endpoint_get(r, q)
    \/ \E r \in DOMAIN pc, o \in FewOutcomes : SearchPlaceReturns(r, o)
    \/ \E r \in DOMAIN pc, o \in FewOutcomes : SearchWithLocationReturns(r, o)
    \/ \E r \in DOMAIN pc, o \in FewOutcomes : ReverseGeocodeReturns(r, o)

Spec == Init /\ [][Next]_vars

SpecConcurrent == InitConcurrent /\ [][NextConcurrent]_vars

(* ------------------- vocabulary of the properties -------------------- *)

SearchFamily == {"/search", "/search/location"}

ProxyRoutes == SearchFamily \cup {"/reverse"}

Done(r) == pc[r] = "done"

\* The upstream call of request r has completed, one way or the other.
Called(r) == Done(r) /\ upstream[r].kind /= "none"

\* Upstream answered request r with a non-2xx status.
UpstreamRefused(r) ==
    /\ Called(r)
    /\ upstream[r].kind = "response"
    /\ ~(upstream[r].status_code \in 200..299)

\* Upstream answered request r with a 2xx status and a JSON body holding "features".
UpstreamSucceeded(r) ==
    /\ Called(r)
    /\ upstream[r].kind = "response"
    /\ upstream[r].status_code \in 200..299
    /\ upstream[r].body.json
    /\ "features" \in DOMAIN upstream[r].body.obj

UpstreamFeatures(r) == upstream[r].body.obj.features

\* A feature shaped as the data model says: properties, and geometry with coordinates.
WellFormed(f) ==
    /\ "properties" \in DOMAIN f
    /\ "geometry" \in DOMAIN f
    /\ "coordinates" \in DOMAIN f.geometry

AllWellFormed(F) == \A i \in 1..Len(F) : WellFormed(F[i])

\* Request r lacks a parameter its route declares as required.
LacksRequired(r) ==
    \/ req[r].route = "/search" /\ "query" \notin DOMAIN req[r].params
    \/ req[r].route = "/search/location" /\ {"query", "lat", "lon"} \ DOMAIN req[r].params /= {}
    \/ req[r].route = "/reverse" /\ {"lat", "lon"} \ DOMAIN req[r].params /= {}

(* ------------------------------ claims -------------------------------- *)

\* C1: on /reverse (GET and POST), an upstream 2xx response whose feature list is
\* empty is answered with status 404, never 200 and never the generic 500.
C1_ReverseEmptyIs404 ==
    \A r \in DOMAIN pc :
        (req[r].route = "/reverse" /\ UpstreamSucceeded(r) /\ UpstreamFeatures(r) = <<>>)
            => resp[r].status = 404

\* C2: for each of the three upstream operations, an upstream non-2xx status S is
\* answered with exactly status S and a detail that embeds the upstream error.
C2_UpstreamStatusPropagated ==
    \A r \in DOMAIN pc :
        UpstreamRefused(r) =>
            /\ resp[r].status = upstream[r].status_code
            /\ resp[r].kind = "json"
            /\ "detail" \in DOMAIN resp[r].content
            /\ Head(resp[r].content.detail) = "Geocoding service error: "
            /\ \E i \in 2..Len(resp[r].content.detail) :
                   resp[r].content.detail[i] = ToString(upstream[r].status_code)

C2_Witness ==
    \E r \in DOMAIN pc :
        /\ UpstreamRefused(r)
        /\ req[r].route = "/search/location"
        /\ upstream[r].status_code = 503
        /\ resp[r].status = 503

\* The text of the exception a failed upstream exchange raises, for the failures
\* that are neither a non-2xx status nor an empty reverse-geocode feature list.
OtherFailureText(r) ==
    LET o == upstream[r] IN
    IF o.kind = "exception" THEN o.text
    ELSE IF ~o.body.json THEN <<"Expecting value: line 1 column 1 (char 0)">>
    ELSE IF "features" \notin DOMAIN o.body.obj THEN <<"'", "features", "'">>
    ELSE LET F == o.body.obj.features
             bad == IF req[r].route = "/reverse" THEN 1
                    ELSE CHOOSE i \in 1..Len(F) :
                             ~WellFormed(F[i]) /\ \A j \in 1..(i - 1) : WellFormed(F[j])
         IN IF "properties" \notin DOMAIN F[bad] THEN <<"'", "properties", "'">>
            ELSE IF "geometry" \notin DOMAIN F[bad] THEN <<"'", "geometry", "'">>
            ELSE <<"'", "coordinates", "'">>

\* Request r failed for a reason other than an upstream non-2xx status or an
\* empty reverse-geocode feature list.
OtherFailure(r) ==
    /\ Called(r)
    /\ req[r].route \in ProxyRoutes
    /\ ~UpstreamRefused(r)
    /\ \/ ~UpstreamSucceeded(r)
       \/ /\ UpstreamSucceeded(r)
          /\ IF req[r].route = "/reverse"
             THEN /\ UpstreamFeatures(r) /= <<>>
                  /\ "properties" \notin DOMAIN UpstreamFeatures(r)[1]
             ELSE ~AllWellFormed(UpstreamFeatures(r))

\* C3: on every search and reverse endpoint, any failure other than an upstream
\* non-2xx status or an empty reverse-geocode feature list (network error, timeout,
\* malformed or incomplete body) is answered with status 500 and a detail that
\* contains the text of the underlying exception.
C3_OtherFailureIs500WithText ==
    \A r \in DOMAIN pc :
        OtherFailure(r) =>
            /\ resp[r].status = 500
            /\ resp[r].kind = "json"
            /\ "detail" \in DOMAIN resp[r].content
            /\ resp[r].content.detail = <<"Unexpected error: ">> \o OtherFailureText(r)

\* C4: on the four search-family endpoints, an upstream feature list F is answered
\* with exactly Len(F) PlaceResults in the order of F, the i-th carrying F[i]'s
\* properties unchanged and F[i]'s geometry coordinates verbatim.
C4_SearchProjectsEveryFeature ==
    \A r \in DOMAIN pc :
        (/\ req[r].route \in SearchFamily
         /\ UpstreamSucceeded(r)
         /\ AllWellFormed(UpstreamFeatures(r)))
            => /\ resp[r].status = 200
               /\ Len(resp[r].content) = Len(UpstreamFeatures(r))
               /\ \A i \in 1..Len(UpstreamFeatures(r)) :
                      /\ resp[r].content[i].properties = UpstreamFeatures(r)[i].properties
                      /\ resp[r].content[i].coordinates
                             = UpstreamFeatures(r)[i].geometry.coordinates

C4_Witness ==
    \E r \in DOMAIN pc :
        /\ req[r].route = "/search" /\ req[r].method = "GET"
        /\ UpstreamSucceeded(r)
        /\ UpstreamFeatures(r) = <<FNoName, FBerlin>>
        /\ resp[r].status = 200
        /\ Len(resp[r].content) = 2
        /\ resp[r].content[2].coordinates = <<13, 52>>

\* C5: on /search (GET and POST) the upstream request carries q equal to the
\* caller's query, limit exactly when the caller supplied one and lang exactly when
\* the caller supplied one, each with the caller's value (limit=0 and lang=""
\* included).
C5_SuppliedParamsForwarded ==
    \A r \in DOMAIN pc :
        (req[r].route = "/search" /\ sent[r] /= <<>>) =>
            LET p == sent[r][1].params
                a == req[r].params
            IN /\ "q" \in DOMAIN p /\ p.q = a.query
               /\ ("limit" \in DOMAIN p) <=> ("limit" \in DOMAIN a)
               /\ ("limit" \in DOMAIN p /\ "limit" \in DOMAIN a) => p.limit = a.limit
               /\ ("lang" \in DOMAIN p) <=> ("lang" \in DOMAIN a)
               /\ ("lang" \in DOMAIN p /\ "lang" \in DOMAIN a) => p.lang = a.lang

\* C6: a /search/location request (GET or POST) that omits lat or lon is answered
\* with an error response and no upstream call is ever issued for it.
C6_MissingLatLonRejectedBeforeCall ==
    \A r \in DOMAIN pc :
        (/\ pc[r] /= "idle"
         /\ req[r].route = "/search/location"
         /\ {"lat", "lon"} \ DOMAIN req[r].params /= {})
            => /\ Done(r)
               /\ resp[r].status >= 400
               /\ sent[r] = <<>>
               /\ upstream[r] = NoOutcome

C6_Witness ==
    \E r \in DOMAIN pc :
        /\ Done(r)
        /\ req[r].route = "/search/location" /\ req[r].method = "GET"
        /\ "query" \in DOMAIN req[r].params
        /\ "lat" \in DOMAIN req[r].params
        /\ "lon" \notin DOMAIN req[r].params
        /\ resp[r].status = 422

\* The status of request r's response is one the interface section lists.
ListedStatus(r) ==
    \/ resp[r].status = 200
    \/ UpstreamRefused(r) /\ resp[r].status = upstream[r].status_code
    \/ /\ resp[r].status = 404
       /\ req[r].route = "/reverse"
       /\ UpstreamSucceeded(r)
       /\ UpstreamFeatures(r) = <<>>
    \/ resp[r].status = 500

\* C7 as stated: every response has a status that is 200, the upstream's own non-2xx
\* status (only when upstream returned it), 404 (only for reverse geocode with no
\* match) or 500.
C7_OnlyListedStatuses ==
    \A r \in DOMAIN pc : Done(r) => ListedStatus(r)

\* C7 as amended: every response on a registered route has a status that is 200, the
\* upstream's own non-2xx status (only when upstream returned it), 404 (only for
\* reverse geocode with no match), 500, or 422 (only when the request fails parameter
\* validation and no upstream call was made).
C7_ListedStatusesOr422 ==
    \A r \in DOMAIN pc :
        Done(r) =>
            \/ ListedStatus(r)
            \/ resp[r].status = 422 /\ LacksRequired(r) /\ sent[r] = <<>>

C7_Witness ==
    \E r \in DOMAIN pc :
        /\ Done(r)
        /\ req[r].route = "/reverse" /\ req[r].method = "POST"
        /\ "lat" \notin DOMAIN req[r].params
        /\ resp[r].status = 422
        /\ sent[r] = <<>>

\* C8: on /reverse (GET and POST), a non-empty upstream feature list F is answered
\* with status 200 and body F[1].properties, the first feature's raw properties
\* mapping, however many further features F holds.
C8_ReverseReturnsFirstProperties ==
    \A r \in DOMAIN pc :
        (/\ req[r].route = "/reverse"
         /\ UpstreamSucceeded(r)
         /\ UpstreamFeatures(r) /= <<>>
         /\ "properties" \in DOMAIN UpstreamFeatures(r)[1])
            => /\ resp[r].status = 200
               /\ resp[r].kind = "json"
               /\ resp[r].content = UpstreamFeatures(r)[1].properties

C8_Witness ==
    \E r \in DOMAIN pc :
        /\ req[r].route = "/reverse" /\ req[r].method = "POST"
        /\ UpstreamSucceeded(r)
        /\ UpstreamFeatures(r) = <<FNoName, FBerlin>>
        /\ resp[r].status = 200
        /\ resp[r].content = [country |-> "France", osm_id |-> 7444]

\* C9: on the four search-family endpoints, a feature whose properties lack 'name'
\* and/or 'country' still yields status 200, and its PlaceResult has that field
\* present with value null.
C9_AbsentNameCountryAreNull ==
    \A r \in DOMAIN pc :
        (/\ req[r].route \in SearchFamily
         /\ UpstreamSucceeded(r)
         /\ AllWellFormed(UpstreamFeatures(r)))
            => /\ resp[r].status = 200
               /\ \A i \in 1..Len(UpstreamFeatures(r)) :
                      /\ {"name", "country"} \subseteq DOMAIN resp[r].content[i]
                      /\ "name" \notin DOMAIN UpstreamFeatures(r)[i].properties
                             => resp[r].content[i].name = [none |-> TRUE]
                      /\ "country" \notin DOMAIN UpstreamFeatures(r)[i].properties
                             => resp[r].content[i].country = [none |-> TRUE]

C9_Witness ==
    \E r \in DOMAIN pc :
        /\ req[r].route = "/search/location"
        /\ UpstreamSucceeded(r)
        /\ UpstreamFeatures(r) = <<FAnonymous, FNoName>>
        /\ resp[r].status = 200
        /\ resp[r].content[1].name = [none |-> TRUE]
        /\ resp[r].content[1].country = [none |-> TRUE]
        /\ resp[r].content[2].name = [none |-> TRUE]
        /\ resp[r].content[2].country = [value |-> "France"]

\* C10: every inbound request to a search or reverse endpoint that passes validation
\* issues exactly one upstream GET over its lifetime: none is repeated after a
\* failure, at most one is in flight, and the response exists only once that call
\* has completed or failed; this holds for each of several interleaved requests.
C10_ExactlyOneUpstreamCall ==
    \A r \in DOMAIN pc :
        /\ Len(sent[r]) <= 1
        /\ (pc[r] \notin {"idle", "done"}) =>
               /\ Len(sent[r]) = 1
               /\ upstream[r] = NoOutcome
               /\ resp[r] = NoResponse
        /\ (Done(r) /\ req[r].route \in ProxyRoutes /\ ~LacksRequired(r)) =>
               /\ Len(sent[r]) = 1
               /\ upstream[r] /= NoOutcome
        /\ resp[r] /= NoResponse => Done(r)

C10_Witness ==
    \E r, t \in DOMAIN pc :
        /\ r /= t
        /\ Done(r) /\ upstream[r].kind = "exception" /\ resp[r].status = 500
        /\ Len(sent[r]) = 1
        /\ pc[t] = "reverse_geocode" /\ Len(sent[t]) = 1

====
